---- MODULE Spec2Model ----
(***************************************************************************)
(* A model of the two-level nearest-neighbour grid of                      *)
(* DataStructures/NNGrid.h: the grid geometry (getFileIndexForLatLon,      *)
(* getRAMIndexFromFileIndex, bresenham), the distance kernel               *)
(* (ComputeDistance), the builder (AddEdge, ConstructGrid, FillCell) and   *)
(* the reader (OpenIndexFiles, GetContentsOfFileBucket,                    *)
(* FindNearestPointOnEdge, FindRoutingStarts).                             *)
(*                                                                         *)
(* Number representation.  TLC's integers are 32-bit signed, so a C++      *)
(* `unsigned` is held by its two's-complement reading: the bit pattern of  *)
(* an unsigned u >= 2^31 is the integer u - 2^32.  UDiv32, UMul1024, UAdd  *)
(* and ULess are the unsigned operations on that reading.  A `double` is   *)
(* held as an exact rational (numerator over a positive denominator); the  *)
(* grid values the code truncates are either exact in binary floating      *)
(* point or at least 1/140625 away from an integer, so truncation of the   *)
(* exact value equals truncation of the double.                            *)
(***************************************************************************)
EXTENDS Integers, Sequences, FiniteSets, TLC

VARIABLES
    calls,          \* history: the edges handed to AddEdge, in call order
    entries,        \* NNGrid::entries, the stxxl::vector<GridEdgeData>
    phase,          \* "build", "built" (files written), "aborted", "undefined", "pure"
    ramIndexTable,  \* the builder's NNGrid::ramIndexTable (entries other than UINT_MAX)
    indexFile,      \* the payload file written through indexOutFile
    ramFile,        \* the RAM index file written by ConstructGrid
    rd,             \* the reader objects: ramIndexTable, opened flag, query in progress
    pos,            \* seek position of each indexInFile handle
    call,           \* the operation last invoked and its arguments
    ret             \* what it returned

vars == <<calls, entries, phase, ramIndexTable, indexFile, ramFile, rd, pos, call, ret>>

-----------------------------------------------------------------------------
(* Program constants *)

UINT_MAX == -1
INT_MAX == 2147483647
GridSize == 32768
CellsPerRamLine == 32
RamLines == 1024
ChildSlots == 1024
DirectoryBytes == 4096
WordBytes == 4
RecordBytes == 24
LatScale == 9000000
LonScale == 18000000
LineScale == 1073741824
RamIndexLimit == 1048576

None == "none"

-----------------------------------------------------------------------------
(* 32-bit arithmetic on two's-complement readings *)

\* C++ int division and remainder (truncation toward zero).
IntDiv(a, b) == IF a >= 0 THEN a \div b ELSE -((-a) \div b)
IntRem(a, b) == a - b * IntDiv(a, b)

\* unsigned x / 32
UDiv32(x) == IF x >= 0 THEN x \div 32 ELSE 134217728 + (x \div 32)

\* unsigned x * 1024 (mod 2^32)
UMul1024(x) ==
    LET m == x % 4194304
    IN  IF m < 2097152 THEN m * 1024 ELSE (m - 4194304) * 1024

\* unsigned a + b (mod 2^32)
UAdd(a, b) ==
    IF a >= 0 /\ b >= 0 /\ a > INT_MAX - b
        THEN (a - INT_MAX - 1) + (b - INT_MAX - 1)
    ELSE IF a < 0 /\ b < 0 /\ a < (-INT_MAX - 1) - b
        THEN (a + INT_MAX + 1) + (b + INT_MAX + 1)
    ELSE a + b

\* unsigned a < b
ULess(a, b) == IF (a < 0) = (b < 0) THEN a < b ELSE b < 0

\* The quotient and remainder of g*n by d for 0 <= n <= d, without leaving 32 bits.
RECURSIVE MulDivQR(_, _, _)
MulDivQR(g, n, d) ==
    IF g = 0 THEN [q |-> 0, r |-> 0]
    ELSE LET h == MulDivQR(g \div 2, n, d)
             r2 == 2 * h.r + (g % 2) * n
         IN  [q |-> 2 * h.q + (r2 \div d), r |-> r2 % d]

\* (unsigned)(g * (n/d)) for the double n/d in [0, 1]
TruncScaled(g, n, d) == MulDivQR(g, n, d).q

-----------------------------------------------------------------------------
(* Grid geometry *)

\* y = (lat + 90.0)/180.0 and x = (lon + 180.0)/360.0 as numerator/denominator
NormY(lt) == [n |-> lt + LatScale, d |-> 2 * LatScale]
NormX(ln) == [n |-> ln + LonScale, d |-> 2 * LonScale]

\* the assertions of getFileIndexForLatLon: x and y in [0, 1]
InWorld(c) ==
    /\ NormY(c.lat).n >= 0 /\ NormY(c.lat).n <= NormY(c.lat).d
    /\ NormX(c.lon).n >= 0 /\ NormX(c.lon).n <= NormX(c.lon).d

getFileIndexForLatLon(lt, ln) ==
    LET y == NormY(lt)
        x == NormX(ln)
        line0 == TruncScaled(LineScale, y.n, y.d)
        line == line0 - (line0 % GridSize)
        column == TruncScaled(GridSize, x.n, x.d)
    IN  line + column

getRAMIndexFromFileIndex(fileIndex) ==
    LET fileLine == UMul1024(UDiv32(IntDiv(fileIndex, GridSize)))
        fileColumn == UDiv32(IntRem(fileIndex, GridSize))
    IN  UAdd(fileLine, fileColumn)

\* assert(ramIndex < 1024*1024) in getRAMIndexFromFileIndex
RAMIndexAssertion(fileIndex) ==
    LET r == getRAMIndexFromFileIndex(fileIndex)
    IN  r >= 0 /\ r < RamIndexLimit

signum(x) == IF x > 0 THEN 1 ELSE IF x < 0 THEN -1 ELSE 0

Abs(x) == IF x < 0 THEN -x ELSE x

\* the pair pushed on indexList for grid position (x, y)
IndexPair(x, y) ==
    LET fileIndex == (y - 1) * GridSize + x
    IN  <<fileIndex, getRAMIndexFromFileIndex(fileIndex)>>

\* the loop of bresenham from step t on, at position (x, y) with error term err
RECURSIVE BresenhamLoop(_, _, _, _, _)
BresenhamLoop(t, x, y, err, p) ==
    IF t >= p.el THEN <<>>
    ELSE LET e1 == err - p.es
             step == e1 < 0
             x1 == IF step THEN x + p.ddx ELSE x + p.pdx
             y1 == IF step THEN y + p.ddy ELSE y + p.pdy
             e2 == IF step THEN e1 + p.el ELSE e1
         IN  <<IndexPair(x1, y1)>> \o BresenhamLoop(t + 1, x1, y1, e2, p)

\* bresenham with x taken for the fast direction whatever the slope
bresenhamAlongX(xstart, ystart, xend, yend) ==
    LET dx0 == xend - xstart
        dy0 == yend - ystart
        incx == signum(dx0)
        incy == signum(dy0)
        p == [pdx |-> incx, pdy |-> 0, ddx |-> incx, ddy |-> incy,
              es |-> Abs(dy0), el |-> Abs(dx0)]
    IN  <<IndexPair(xstart, ystart)>>
            \o BresenhamLoop(0, xstart, ystart, p.el \div 2, p)

bresenham(xstart, ystart, xend, yend) ==
    LET dx0 == xend - xstart
        dy0 == yend - ystart
        incx == signum(dx0)
        incy == signum(dy0)
        dx == Abs(dx0)
        dy == Abs(dy0)
        p == IF dx > dy
                 THEN [pdx |-> incx, pdy |-> 0, ddx |-> incx, ddy |-> incy,
                       es |-> dy, el |-> dx]
                 ELSE [pdx |-> 0, pdy |-> incy, ddx |-> incx, ddy |-> incy,
                       es |-> dx, el |-> dy]
    IN  <<IndexPair(xstart, ystart)>>
            \o BresenhamLoop(0, xstart, ystart, p.el \div 2, p)

\* the int arguments getListOfIndexesForEdgeAndGridSize passes to bresenham
GridX(c) == TruncScaled(GridSize, NormX(c.lon).n, NormX(c.lon).d)
GridY(c) == TruncScaled(GridSize, NormY(c.lat).n, NormY(c.lat).d)

getListOfIndexesForEdgeAndGridSize(start, target) ==
    bresenham(GridX(start), GridY(start), GridX(target), GridY(target))

-----------------------------------------------------------------------------
(* Distance kernel.  A double is the exact rational n/d, d > 0.             *)

DBL_MAX == [n |-> 1, d |-> 0]   \* numeric_limits<double>::max(): above every distance

\* a < b on doubles
DistLess(a, b) ==
    IF b.d = 0 THEN a.d # 0
    ELSE IF a.d = 0 THEN FALSE
    ELSE a.n * b.d < b.n * a.d

\* (int)(s + num/den) for an int s and den > 0: truncation toward zero
TruncSum(s, num, den) ==
    LET fl == num \div den
        exact == (num % den) = 0
    IN  IF s + fl >= 0 THEN s + fl
        ELSE IF exact THEN s + fl ELSE s + fl + 1

KernelV(source, target) ==
    [X |-> target.lat - source.lat, Y |-> target.lon - source.lon]

KernelW(inputPoint, source) ==
    [X |-> inputPoint.lat - source.lat, Y |-> inputPoint.lon - source.lon]

\* the value of *r when ComputeDistance returns; r0 is the caller's value on entry
ComputeDistance_r(inputPoint, source, target, r0) ==
    LET v == KernelV(source, target)
        w == KernelW(inputPoint, source)
        lengthSquared == v.X * v.X + v.Y * v.Y
    IN  IF lengthSquared # 0
            THEN [n |-> v.X * w.X + v.Y * w.Y, d |-> lengthSquared]
            ELSE r0

\* the coordinate left in `nearest`
ComputeDistance_nearest(inputPoint, source, target, r0) ==
    LET v == KernelV(source, target)
        r == ComputeDistance_r(inputPoint, source, target, r0)
    IN  IF r.n <= 0 THEN [lat |-> source.lat, lon |-> source.lon]
        ELSE IF r.n >= r.d THEN [lat |-> target.lat, lon |-> target.lon]
        ELSE [lat |-> TruncSum(source.lat, r.n * v.X, r.d),
              lon |-> TruncSum(source.lon, r.n * v.Y, r.d)]

\* the squared distance returned.  In the last branch dX = dXn/r.d and
\* dY = dYn/r.d, and dXn^2 + dYn^2 is r.d times the squared cross product of
\* v and w, so the division by r.d below is exact.
ComputeDistance(inputPoint, source, target, r0) ==
    LET v == KernelV(source, target)
        w == KernelW(inputPoint, source)
        r == ComputeDistance_r(inputPoint, source, target, r0)
    IN  IF r.n <= 0 THEN [n |-> w.Y * w.Y + w.X * w.X, d |-> 1]
        ELSE IF r.n >= r.d
            THEN LET dY == inputPoint.lon - target.lon
                     dX == inputPoint.lat - target.lat
                 IN  [n |-> dY * dY + dX * dX, d |-> 1]
        ELSE LET dXn == r.n * v.X - w.X * r.d
                 dYn == r.n * v.Y - w.Y * r.d
             IN  [n |-> (dYn * dYn + dXn * dXn) \div r.d, d |-> r.d]

RZero == [n |-> 0, d |-> 1]     \* double r = 0.;

-----------------------------------------------------------------------------
(* Files.  A file is its size in bytes and the 32-bit words it holds at     *)
(* 4-byte offsets; a word that is not listed is 0xFFFFFFFF.  Every write    *)
(* and read of the index is of whole words at offsets that are multiples    *)
(* of 4.  A table of unsigned (ramIndexTable, a child directory) is held    *)
(* the same way: the entries that are not listed are UINT_MAX.              *)

EmptyTable == <<>>
EmptyFile == [size |-> 0, data |-> <<>>]

TableGet(t, i) == IF i \in DOMAIN t THEN t[i] ELSE UINT_MAX

TableSet(t, i, v) ==
    IF v = UINT_MAX THEN [k \in DOMAIN t \ {i} |-> t[k]]
    ELSE (i :> v) @@ t

Word(f, p) == TableGet(f.data, p)

\* the stream's eof() after reading the word at p
AtEOF(f, p) == p + WordBytes > f.size

\* the words of a sequence written at byte offset p
WordsAt(p, ws) ==
    LET listed == {k \in 1..Len(ws) : ws[k] # UINT_MAX}
    IN  [o \in {p + WordBytes * (k - 1) : k \in listed} |->
            ws[((o - p) \div WordBytes) + 1]]

\* a table of n unsigned written at byte offset p
TableAt(p, t) ==
    [o \in {p + WordBytes * i : i \in DOMAIN t} |-> t[(o - p) \div WordBytes]]

-----------------------------------------------------------------------------
(* Builder *)

GridEdgeData(edge, fileIndex, ramIndex) ==
    [edge |-> edge, fileIndex |-> fileIndex, ramIndex |-> ramIndex]

\* the entries AddEdge pushes for one edge
AddEdgeEntries(edge, start, target) ==
    LET e == [edge EXCEPT !.startCoord = start, !.targetCoord = target]
        indexList == getListOfIndexesForEdgeAndGridSize(start, target)
    IN  [i \in 1..Len(indexList) |->
            GridEdgeData(e, indexList[i][1], indexList[i][2])]

\* the assertion in getRAMIndexFromFileIndex holds for every cell of the edge
AddEdgeAsserts(start, target) ==
    LET indexList == getListOfIndexesForEdgeAndGridSize(start, target)
    IN  \A i \in 1..Len(indexList) : RAMIndexAssertion(indexList[i][1])

CompareGridEdgeDataByRamIndex(a, b) == ULess(a.ramIndex, b.ramIndex)
CompareGridEdgeDataByFileIndex(a, b) == ULess(a.fileIndex, b.fileIndex)

\* operator== of GridEdgeData
GridEdgeDataEq(a, b) ==
    /\ a.edge.start = b.edge.start
    /\ a.edge.target = b.edge.target
    /\ a.fileIndex = b.fileIndex

\* The orders in which a sort may leave the positions `rem` of s: the order
\* of elements that compare equivalent is unspecified.
RECURSIVE SortOrders(_, _, _)
SortOrders(s, rem, byRam) ==
    IF rem = {} THEN {<<>>}
    ELSE LET less(a, b) == IF byRam THEN CompareGridEdgeDataByRamIndex(a, b)
                           ELSE CompareGridEdgeDataByFileIndex(a, b)
             least == {i \in rem : \A j \in rem : ~less(s[j], s[i])}
         IN  UNION {{<<s[i]>> \o t : t \in SortOrders(s, rem \ {i}, byRam)} :
                        i \in least}

\* stxxl::sort(entries, CompareGridEdgeDataByRamIndex())
SortByRamIndex(s) == SortOrders(s, DOMAIN s, TRUE)

\* std::sort(entriesWithSameRAMIndex, CompareGridEdgeDataByFileIndex())
SortByFileIndex(s) == SortOrders(s, DOMAIN s, FALSE)

\* std::unique under an equality that looks at the file cell alone
RECURSIVE UniqueByFileIndex(_)
UniqueByFileIndex(s) ==
    IF Len(s) <= 1 THEN s
    ELSE LET rest == UniqueByFileIndex(Tail(s))
         IN  IF s[1].fileIndex = rest[1].fileIndex THEN <<s[1]>> \o Tail(rest)
             ELSE <<s[1]>> \o rest

\* std::unique: of each run of consecutive equal elements the first is kept
RECURSIVE Unique(_)
Unique(s) ==
    IF Len(s) <= 1 THEN s
    ELSE LET rest == Unique(Tail(s))
         IN  IF GridEdgeDataEq(s[1], rest[1]) THEN <<s[1]>> \o Tail(rest)
             ELSE <<s[1]>> \o rest

\* the file cell at line i, column j of RAM cell ramIndex (the keys of cellMap)
LineBase(ramIndex) == (ramIndex \div RamLines) * CellsPerRamLine * GridSize
ColumnBase(ramIndex) == (ramIndex % RamLines) * CellsPerRamLine

\* cellMap->find(fileIndex)->second, or None for cellMap->end(): the map holds
\* lineBase + i*32768 + columnBase + j |-> i*32 + j for i, j in 0..31
CellMapFind(ramIndex, fileIndex) ==
    LET d == fileIndex - (LineBase(ramIndex) + ColumnBase(ramIndex))
        i == d \div GridSize
        j == d % GridSize
    IN  IF i >= 0 /\ i < CellsPerRamLine /\ j >= 0 /\ j < CellsPerRamLine
            THEN i * CellsPerRamLine + j
            ELSE None

\* the records of one file cell with no terminator after them
RECURSIVE FlushWithoutTerminator(_)
FlushWithoutTerminator(v) ==
    IF v = <<>> THEN <<>>
    ELSE LET e == v[1].edge
         IN  <<e.start, e.target, e.startCoord.lat, e.startCoord.lon,
               e.targetCoord.lat, e.targetCoord.lon>>
                 \o FlushWithoutTerminator(Tail(v))

\* the words FlushEntriesWithSameFileIndexToBuffer writes for one file cell
RECURSIVE FlushEntriesWithSameFileIndexToBuffer(_)
FlushEntriesWithSameFileIndexToBuffer(v) ==
    IF v = <<>> THEN <<UINT_MAX>>
    ELSE LET e == v[1].edge
         IN  <<e.start, e.target, e.startCoord.lat, e.startCoord.lon,
               e.targetCoord.lat, e.targetCoord.lon>>
                 \o FlushEntriesWithSameFileIndexToBuffer(Tail(v))

\* the leading run of entries of s that share s[1].fileIndex
RECURSIVE LeadingRun(_)
LeadingRun(s) ==
    IF Len(s) <= 1 THEN s
    ELSE IF s[2].fileIndex # s[1].fileIndex THEN <<s[1]>>
    ELSE <<s[1]>> \o LeadingRun(Tail(s))

\* a child entry that leaves out the super-bucket's offset
ChildEntryInBuffer(indexIntoTmpBuffer, fileOffset) == indexIntoTmpBuffer

\* the value stored in cellIndex[localCellIndex]
ChildEntry(indexIntoTmpBuffer, fileOffset) == indexIntoTmpBuffer + fileOffset

\* the traversal of FillCell over the sorted, unique entries u: each run of
\* one fileIndex is flushed at indexIntoTmpBuffer and its start is noted in
\* cellIndex
RECURSIVE FillRuns(_, _, _, _, _)
FillRuns(u, ramIndex, fileOffset, cellIndex, tmpBuffer) ==
    IF u = <<>> THEN [cellIndex |-> cellIndex, tmpBuffer |-> tmpBuffer]
    ELSE LET run == LeadingRun(u)
             indexIntoTmpBuffer == WordBytes * Len(tmpBuffer)
             localCellIndex == CellMapFind(ramIndex, run[1].fileIndex)
         IN  FillRuns(SubSeq(u, Len(run) + 1, Len(u)), ramIndex, fileOffset,
                      TableSet(cellIndex, localCellIndex,
                               ChildEntry(indexIntoTmpBuffer, fileOffset)),
                      tmpBuffer \o FlushEntriesWithSameFileIndexToBuffer(run))

\* FillCell after its sort: `sorted` is entriesWithSameRAMIndex as std::sort
\* left it and ramIndex the ramIndex of its first element before the sort.
\* The super-bucket is appended to file f; numberOfWrittenBytes is returned.
FillCell(sorted, ramIndex, fileOffset, f) ==
    LET filled == FillRuns(Unique(sorted), ramIndex, fileOffset, EmptyTable, <<>>)
        indexIntoTmpBuffer == WordBytes * Len(filled.tmpBuffer)
        numberOfWrittenBytes == DirectoryBytes + indexIntoTmpBuffer
    IN  [numberOfWrittenBytes |-> numberOfWrittenBytes,
         file |-> [size |-> f.size + numberOfWrittenBytes,
                   data |-> TableAt(f.size, filled.cellIndex)
                            @@ WordsAt(f.size + DirectoryBytes, filled.tmpBuffer)
                            @@ f.data]]

\* the leading run of entries of s that share s[1].ramIndex
RECURSIVE LeadingRamRun(_)
LeadingRamRun(s) ==
    IF Len(s) <= 1 THEN s
    ELSE IF s[2].ramIndex # s[1].ramIndex THEN <<s[1]>>
    ELSE <<s[1]>> \o LeadingRamRun(Tail(s))

\* The loop of ConstructGrid over the sorted entries that remain: every way
\* it can end, as the table and the payload file written.
RECURSIVE ConstructLoop(_, _, _, _)
ConstructLoop(rest, lastPositionInIndexFile, table, f) ==
    IF rest = <<>> THEN {[ramIndexTable |-> table, indexFile |-> f]}
    ELSE LET group == LeadingRamRun(rest)
             indexInRamTable == group[1].ramIndex
         IN  UNION {
               LET cell == FillCell(sorted, indexInRamTable,
                                    lastPositionInIndexFile, f)
               IN  ConstructLoop(SubSeq(rest, Len(group) + 1, Len(rest)),
                                 lastPositionInIndexFile + cell.numberOfWrittenBytes,
                                 TableSet(table, indexInRamTable,
                                          lastPositionInIndexFile),
                                 cell.file)
               : sorted \in SortByFileIndex(group)}

\* the indexes ConstructGrid can write for the entries es (es not empty)
ConstructGridOutcomes(es) ==
    UNION {ConstructLoop(sorted, 0, EmptyTable, EmptyFile) :
               sorted \in SortByRamIndex(es)}

-----------------------------------------------------------------------------
(* Reader *)

Edge(start, target, slat, slon, tlat, tlon) ==
    [start |-> start, target |-> target,
     startCoord |-> [lat |-> slat, lon |-> slon],
     targetCoord |-> [lat |-> tlat, lon |-> tlon]]

\* the record whose first word is at byte offset p
RecordAt(f, p) ==
    Edge(Word(f, p), Word(f, p + 4), Word(f, p + 8), Word(f, p + 12),
         Word(f, p + 16), Word(f, p + 20))

\* the do-loop of GetContentsOfFileBucket with the stream at byte offset p
RECURSIVE ReadRecords(_, _)
ReadRecords(f, p) ==
    IF Word(f, p) = UINT_MAX \/ AtEOF(f, p) THEN <<>>
    ELSE <<RecordAt(f, p)>> \o ReadRecords(f, p + RecordBytes)

\* the 1024 entries read into cellIndex with the stream at byte offset p
ReadDirectory(f, p) ==
    LET within == {o \in DOMAIN f.data : o >= p /\ o < p + WordBytes * ChildSlots}
        listed == {(o - p) \div WordBytes : o \in within}
    IN  [i \in listed |-> Word(f, p + WordBytes * i)]

\* what GetContentsOfFileBucket(fileIndex, result) appends to result, for the
\* reader's table t and the payload file f
GetContentsOfFileBucket(t, f, fileIndex) ==
    LET ramIndex == getRAMIndexFromFileIndex(fileIndex)
        startIndexInFile == TableGet(t, ramIndex)
    IN  IF startIndexInFile = UINT_MAX THEN <<>>
        ELSE LET cellIndex == ReadDirectory(f, startIndexInFile)
                 entry == TableGet(cellIndex, CellMapFind(ramIndex, fileIndex))
             IN  IF entry = UINT_MAX THEN <<>>
                 ELSE ReadRecords(f, entry + DirectoryBytes)

\* a window that begins two rows above the query's cell
NeighbourhoodShifted(fileIndex) ==
    LET js == <<-2 * GridSize, -GridSize, 0>>
        is == <<-1, 0, 1>>
    IN  [k \in 1..9 |->
            UAdd(UAdd(fileIndex, is[((k - 1) % 3) + 1]), js[((k - 1) \div 3) + 1])]

\* the file indexes fileIndex+i+j in the order of the two nested loops
Neighbourhood(fileIndex) ==
    LET js == <<-GridSize, 0, GridSize>>
        is == <<-1, 0, 1>>
    IN  [k \in 1..9 |->
            UAdd(UAdd(fileIndex, is[((k - 1) % 3) + 1]), js[((k - 1) \div 3) + 1])]

RECURSIVE WindowContents(_, _, _, _)
WindowContents(t, f, cells, k) ==
    IF k > Len(cells) THEN <<>>
    ELSE GetContentsOfFileBucket(t, f, cells[k]) \o WindowContents(t, f, cells, k + 1)

\* the vector `candidates` after the nine calls
Candidates(t, f, coord) ==
    WindowContents(t, f, Neighbourhood(getFileIndexForLatLon(coord.lat, coord.lon)), 1)

\* the scan of the candidates from position k on: the nearest one so far is
\* best (NoBest before the first)
RECURSIVE ScanCandidates(_, _, _, _)
ScanCandidates(coord, candidates, k, best) ==
    IF k > Len(candidates) THEN best
    ELSE LET it == candidates[k]
             tmpDist == ComputeDistance(coord, it.startCoord, it.targetCoord, RZero)
         IN  IF DistLess(tmpDist, best.dist)
                 THEN ScanCandidates(coord, candidates, k + 1,
                        [dist |-> tmpDist, found |-> TRUE, node1 |-> it.start,
                         node2 |-> it.target,
                         r |-> ComputeDistance_r(coord, it.startCoord,
                                                 it.targetCoord, RZero),
                         nearest |-> ComputeDistance_nearest(coord, it.startCoord,
                                                 it.targetCoord, RZero)])
                 ELSE ScanCandidates(coord, candidates, k + 1, best)

Sentinel == [lat |-> INT_MAX, lon |-> INT_MAX]

NoBest ==
    [dist |-> DBL_MAX, found |-> FALSE, node1 |-> UINT_MAX, node2 |-> UINT_MAX,
     r |-> RZero, nearest |-> Sentinel]

NearestOf(coord, candidates) == ScanCandidates(coord, candidates, 1, NoBest)

FindNearestPointOnEdge(t, f, inputCoordinate) ==
    NearestOf(inputCoordinate, Candidates(t, f, inputCoordinate)).nearest

\* the fields of *routingStarts before the call: whatever the caller left there
PhantomBefore ==
    [startNode1 |-> UINT_MAX, startNode2 |-> UINT_MAX, startRatio |-> RZero,
     startCoord |-> Sentinel, targetNode1 |-> UINT_MAX, targetNode2 |-> UINT_MAX,
     targetRatio |-> RZero, targetCoord |-> Sentinel]

\* the value returned and *routingStarts after the call
FindRoutingStarts(t, f, startCoord, targetCoord) ==
    LET s == NearestOf(startCoord, Candidates(t, f, startCoord))
        g == NearestOf(targetCoord, Candidates(t, f, targetCoord))
        p1 == IF s.found
                  THEN [PhantomBefore EXCEPT !.startNode1 = s.node1,
                            !.startNode2 = s.node2, !.startRatio = s.r,
                            !.startCoord = s.nearest]
                  ELSE PhantomBefore
        p2 == IF g.found
                  THEN [p1 EXCEPT !.targetNode1 = g.node1,
                            !.targetNode2 = g.node2, !.targetRatio = g.r,
                            !.targetCoord = g.nearest]
                  ELSE p1
    IN  [value |-> TRUE, routingStarts |-> p2]

\* the seek position of the stream after GetContentsOfFileBucket(fileIndex),
\* entered with the stream at byte offset p
PositionAfterBucket(t, f, fileIndex, p) ==
    LET ramIndex == getRAMIndexFromFileIndex(fileIndex)
        startIndexInFile == TableGet(t, ramIndex)
    IN  IF startIndexInFile = UINT_MAX THEN p
        ELSE LET cellIndex == ReadDirectory(f, startIndexInFile)
                 entry == TableGet(cellIndex, CellMapFind(ramIndex, fileIndex))
             IN  IF entry = UINT_MAX THEN startIndexInFile + DirectoryBytes
                 ELSE entry + DirectoryBytes
                        + RecordBytes * Len(ReadRecords(f, entry + DirectoryBytes))
                        + WordBytes

RECURSIVE PositionAfterWindow(_, _, _, _, _)
PositionAfterWindow(t, f, cells, k, p) ==
    IF k > Len(cells) THEN p
    ELSE PositionAfterWindow(t, f, cells, k + 1,
                             PositionAfterBucket(t, f, cells[k], p))

\* the seek position after the nine calls made for coord
PositionAfterQuery(t, f, coord, p) ==
    PositionAfterWindow(t, f,
        Neighbourhood(getFileIndexForLatLon(coord.lat, coord.lon)), 1, p)

-----------------------------------------------------------------------------
(* Bounds and inputs *)

MaxEdges == 3       \* AddEdge calls before ConstructGrid

Coord(lat, lon) == [lat |-> lat, lon |-> lon]

\* Edges around the corner of file cells at lat 549/550, lon 1098/1099: grid
\* rows 16384 and 16385, columns 16384 and 16385.  RAM line 512 begins at
\* grid row 16384, so the rows written (one lower) lie in two RAM cells.
Edges ==
    { Edge(1, 2, 545, 1095, 547, 1097),     \* inside row 16384, column 16384
      Edge(3, 4, 546, 1090, 548, 1094),     \* the same file cell
      Edge(5, 6, 545, 1095, 555, 1105),     \* diagonal into row 16385, column 16385
      Edge(7, 8, 555, 1095, 557, 1097) }    \* inside row 16385, column 16384

Queries ==
    { Coord(546, 1096),     \* row 16384, column 16384
      Coord(549, 1098),     \* the same cell, beyond the end of edge (1, 2)
      Coord(555, 1095),     \* row 16385, column 16384
      Coord(545, 4400) }    \* row 16384, column 16388

\* the (start, target) pairs handed to FindRoutingStarts
RoutingPairs ==
    { <<Coord(546, 1096), Coord(555, 1095)>>,
      <<Coord(549, 1098), Coord(545, 4400)>>,
      <<Coord(545, 4400), Coord(546, 1096)>>,
      <<Coord(555, 1095), Coord(555, 1095)>>,
      <<Coord(545, 4400), Coord(545, 4400)>> }

Readers == {1, 2}

\* one indexInFile handle that every reader seeks and reads
SharedHandle(h) == 1

\* the indexInFile handle reader h seeks and reads: a field of its own object
Handle(h) == h

ReaderIdle ==
    [opened |-> FALSE, ramIndexTable |-> EmptyTable, pc |-> "idle",
     coord |-> Coord(0, 0), cells |-> <<>>, k |-> 0, candidates |-> <<>>,
     cellIndex |-> EmptyTable, nearest |-> Sentinel, queries |-> 0]

NoCall == [op |-> "none"]

-----------------------------------------------------------------------------
(* The builder: AddEdge calls, then ConstructGrid *)

Init ==
    /\ calls = <<>>
    /\ entries = <<>>
    /\ phase = "build"
    /\ ramIndexTable = EmptyTable
    /\ indexFile = EmptyFile
    /\ ramFile = EmptyTable
    /\ rd = [h \in Readers |-> ReaderIdle]
    /\ pos = [h \in Readers |-> 0]
    /\ call = NoCall
    /\ ret = None

\* AddEdge(edge, start, target); a failed assertion ends the program
AddEdge(e) ==
    /\ phase = "build"
    /\ Len(calls) < MaxEdges
    /\ call' = [op |-> "AddEdge", edge |-> e]
    /\ ret' = None
    /\ IF AddEdgeAsserts(e.startCoord, e.targetCoord)
           THEN /\ calls' = Append(calls, e)
                /\ entries' = entries \o AddEdgeEntries(e, e.startCoord, e.targetCoord)
                /\ phase' = phase
           ELSE /\ phase' = "aborted"
                /\ UNCHANGED <<calls, entries>>
    /\ UNCHANGED <<ramIndexTable, indexFile, ramFile, rd, pos>>

\* ConstructGrid(ramIndexOut, fileIndexOut) with at least one entry
ConstructGrid ==
    /\ phase = "build"
    /\ entries # <<>>
    /\ \E sorted \in SortByRamIndex(entries) :
         \E out \in ConstructLoop(sorted, 0, EmptyTable, EmptyFile) :
            /\ entries' = sorted
            /\ ramIndexTable' = out.ramIndexTable
            /\ indexFile' = out.indexFile
            /\ ramFile' = out.ramIndexTable
    /\ phase' = "built"
    /\ call' = [op |-> "ConstructGrid"]
    /\ ret' = None
    /\ UNCHANGED <<calls, rd, pos>>

\* ConstructGrid with no entry: entries->begin() is dereferenced at the end
\* of the vector, so nothing is known of what follows
ConstructGridEmpty ==
    /\ phase = "build"
    /\ entries = <<>>
    /\ phase' = "undefined"
    /\ call' = [op |-> "ConstructGrid"]
    /\ ret' = None
    /\ UNCHANGED <<calls, entries, ramIndexTable, indexFile, ramFile, rd, pos>>

Next ==
    \/ \E e \in Edges : AddEdge(e)
    \/ ConstructGrid
    \/ ConstructGridEmpty

Spec == Init /\ [][Next]_vars

-----------------------------------------------------------------------------
(* The reader over an index that ConstructGrid wrote *)

MaxIndexed == 2     \* AddEdge calls behind the index the reader opens

\* the sequences of at most n edges of S
RECURSIVE CallSeqsOver(_, _)
CallSeqsOver(S, n) ==
    IF n = 0 THEN {<<>>}
    ELSE LET shorter == CallSeqsOver(S, n - 1)
         IN  shorter \cup {Append(cs, e) : cs \in shorter, e \in S}

CallSeqs(n) == CallSeqsOver(Edges, n)

\* entries after AddEdge has been called for each edge of cs in turn
RECURSIVE EntriesOf(_)
EntriesOf(cs) ==
    IF cs = <<>> THEN <<>>
    ELSE EntriesOf(SubSeq(cs, 1, Len(cs) - 1))
            \o AddEdgeEntries(cs[Len(cs)], cs[Len(cs)].startCoord,
                              cs[Len(cs)].targetCoord)

\* the reader's process starts with the two files a builder left behind
InitRead ==
    /\ calls \in CallSeqs(MaxIndexed) \ {<<>>}
    /\ entries = <<>>
    /\ phase = "built"
    /\ ramIndexTable = EmptyTable
    /\ \E out \in ConstructGridOutcomes(EntriesOf(calls)) :
          /\ indexFile = out.indexFile
          /\ ramFile = out.ramIndexTable
    /\ rd = [h \in Readers |-> ReaderIdle]
    /\ pos = [h \in Readers |-> 0]
    /\ call = NoCall
    /\ ret = None

\* NNGrid(rif, iif) followed by OpenIndexFiles(): the reader's startup
OpenIndexFiles(h) ==
    /\ phase = "built"
    /\ ~rd[h].opened
    /\ rd' = [rd EXCEPT ![h].opened = TRUE, ![h].ramIndexTable = ramFile]
    /\ call' = [op |-> "OpenIndexFiles", h |-> h]
    /\ ret' = None
    /\ UNCHANGED <<calls, entries, phase, ramIndexTable, indexFile, ramFile, pos>>

CallFindNearestPointOnEdge(h, q) ==
    /\ rd[h].opened
    /\ rd[h].pc = "idle"
    /\ call' = [op |-> "FindNearestPointOnEdge", h |-> h, coord |-> q]
    /\ ret' = FindNearestPointOnEdge(rd[h].ramIndexTable, indexFile, q)
    /\ pos' = [pos EXCEPT ![Handle(h)] =
                 PositionAfterQuery(rd[h].ramIndexTable, indexFile, q, @)]
    /\ UNCHANGED <<calls, entries, phase, ramIndexTable, indexFile, ramFile, rd>>

CallFindRoutingStarts(h, s, t) ==
    /\ rd[h].opened
    /\ rd[h].pc = "idle"
    /\ call' = [op |-> "FindRoutingStarts", h |-> h, startCoord |-> s,
                targetCoord |-> t]
    /\ ret' = FindRoutingStarts(rd[h].ramIndexTable, indexFile, s, t)
    /\ pos' = [pos EXCEPT ![Handle(h)] =
                 PositionAfterQuery(rd[h].ramIndexTable, indexFile, t,
                    PositionAfterQuery(rd[h].ramIndexTable, indexFile, s, @))]
    /\ UNCHANGED <<calls, entries, phase, ramIndexTable, indexFile, ramFile, rd>>

NextRead ==
    \/ OpenIndexFiles(1)
    \/ \E q \in Queries : CallFindNearestPointOnEdge(1, q)
    \/ \E st \in RoutingPairs : CallFindRoutingStarts(1, st[1], st[2])

SpecRead == InitRead /\ [][NextRead]_vars

-----------------------------------------------------------------------------
(* Properties of the reader *)

\* the edges the index was built from
IndexedEdges == {calls[i] : i \in 1..Len(calls)}

\* the file cells for which the builder pushed an entry
StoredCells == {en.fileIndex : en \in {EntriesOf(calls)[i] : i \in 1..Len(EntriesOf(calls))}}

\* the nine file cells fileCellOf(q) + i + 32768*j, i, j in {-1, 0, 1}
WindowCells(q) ==
    {getFileIndexForLatLon(q.lat, q.lon) + i + GridSize * j :
        i \in {-1, 0, 1}, j \in {-1, 0, 1}}

\* the closest point of edge e to q and its squared distance
Foot(e, q) == ComputeDistance_nearest(q, e.startCoord, e.targetCoord, RZero)
FootDist(e, q) == ComputeDistance(q, e.startCoord, e.targetCoord, RZero)

FootInWindow(e, q) ==
    getFileIndexForLatLon(Foot(e, q).lat, Foot(e, q).lon) \in WindowCells(q)

\* no indexed edge is closer to q than e
IsNearest(e, q) ==
    \A o \in IndexedEdges : ~DistLess(FootDist(o, q), FootDist(e, q))

\* C1 (as claimed): when the edge nearest to the query has its closest point in
\* one of the nine file cells of the query's window, FindNearestPointOnEdge
\* returns that point and FindRoutingStarts reports it with the edge's node ids.
C1_BuildReadRoundtrip ==
    /\ call.op = "FindNearestPointOnEdge" =>
         \A e \in IndexedEdges :
            (FootInWindow(e, call.coord) /\ IsNearest(e, call.coord)) =>
                \E o \in IndexedEdges :
                    /\ IsNearest(o, call.coord)
                    /\ ret = Foot(o, call.coord)
    /\ call.op = "FindRoutingStarts" =>
         \A e \in IndexedEdges :
            (FootInWindow(e, call.startCoord) /\ IsNearest(e, call.startCoord)) =>
                \E o \in IndexedEdges :
                    /\ IsNearest(o, call.startCoord)
                    /\ ret.routingStarts.startCoord = Foot(o, call.startCoord)
                    /\ ret.routingStarts.startNode1 = o.start
                    /\ ret.routingStarts.startNode2 = o.target

\* neither lookup of the last FindRoutingStarts found a candidate
BothLookupsEmpty ==
    /\ Candidates(rd[call.h].ramIndexTable, indexFile, call.startCoord) = <<>>
    /\ Candidates(rd[call.h].ramIndexTable, indexFile, call.targetCoord) = <<>>

\* C2 (as claimed): FindRoutingStarts returns false exactly when both lookups
\* find no candidate edge, and true otherwise.
C2_FalseWhenBothLookupsFail ==
    call.op = "FindRoutingStarts" => (ret.value = ~BothLookupsEmpty)

\* C9: when none of the nine file cells of the query's window holds an edge
\* record, FindNearestPointOnEdge returns (INT32_MAX, INT32_MAX).
C9_EmptyNeighbourhood ==
    (call.op = "FindNearestPointOnEdge"
        /\ WindowCells(call.coord) \cap StoredCells = {})
    => ret = Sentinel

\* C9's case: an edge is stored at file cell F, the query's file cell is F + 3
\* and the sentinel was returned
C9_Witness ==
    /\ call.op = "FindNearestPointOnEdge"
    /\ \E c \in StoredCells :
          getFileIndexForLatLon(call.coord.lat, call.coord.lon) = c + 3
    /\ WindowCells(call.coord) \cap StoredCells = {}
    /\ ret = Sentinel

-----------------------------------------------------------------------------
(* Properties of the index ConstructGrid writes *)

\* the file cells of the entries pushed by the AddEdge calls
EntryCells == {entries[i].fileIndex : i \in 1..Len(entries)}

\* the edge records the payload file holds for file cell fc, as the reader
\* finds them through table t in file f
RecordsOfCell(t, f, fc) == GetContentsOfFileBucket(t, f, fc)

SeqToSet(s) == {s[i] : i \in 1..Len(s)}

\* C3 (as claimed): after ConstructGrid no two edge records stored for the
\* same file cell have the same (start, target) node ids.
C3_NoDuplicateRecords ==
    phase = "built" =>
        \A fc \in EntryCells :
            LET rs == RecordsOfCell(ramFile, indexFile, fc)
            IN  \A i, j \in 1..Len(rs) :
                    (rs[i].start = rs[j].start /\ rs[i].target = rs[j].target)
                        => i = j

\* the start of the super-bucket that follows the one at byte offset off, or
\* the end of the file
NextSuperBucket(t, f, off) ==
    LET later == {t[r] : r \in DOMAIN t} \cap {o \in (off + 1)..f.size : TRUE}
    IN  IF later = {} THEN f.size
        ELSE CHOOSE o \in later : \A o2 \in later : o <= o2

\* C4 (as claimed): every RAM directory entry is the offset of a super-bucket
\* header inside the payload file, and every child directory entry written in
\* it is the absolute offset of the first edge record of its slot, beyond the
\* end of the 1024-entry directory and before the next super-bucket (or EOF).
C4_DirectoryCompleteness_AsClaimed ==
    phase = "built" =>
        \A r \in DOMAIN ramFile :
            LET off == ramFile[r]
                dir == ReadDirectory(indexFile, off)
            IN  /\ off >= 0 /\ off + DirectoryBytes <= indexFile.size
                /\ \A c \in DOMAIN dir :
                      /\ dir[c] >= off + DirectoryBytes
                      /\ dir[c] < NextSuperBucket(ramFile, indexFile, off)

\* the file cell of child slot c of RAM cell r
CellOfSlot(r, c) ==
    LineBase(r) + (c \div CellsPerRamLine) * GridSize + ColumnBase(r)
        + (c % CellsPerRamLine)

\* the byte after the payload that begins at byte offset p
PayloadEnd(f, p) == p + RecordBytes * Len(ReadRecords(f, p)) + WordBytes

\* C4 (amended): every RAM directory entry is the offset of a super-bucket
\* header inside the payload file (the first at 0, each next one where the
\* payloads of the previous end), and every child directory entry written in
\* it is the offset of the first edge record of its slot less the 4096 bytes
\* of the directory: entry + 4096 is at or beyond the end of the directory,
\* before the next super-bucket (or EOF), and begins the records of an edge
\* that was added for that file cell.
C4_DirectoryCompleteness ==
    phase = "built" =>
        /\ \E r \in DOMAIN ramFile : ramFile[r] = 0
        /\ \A r1, r2 \in DOMAIN ramFile : ramFile[r1] = ramFile[r2] => r1 = r2
        /\ \A r \in DOMAIN ramFile :
            LET off == ramFile[r]
                dir == ReadDirectory(indexFile, off)
                next == NextSuperBucket(ramFile, indexFile, off)
            IN  /\ off >= 0 /\ off + DirectoryBytes <= indexFile.size
                /\ dir # <<>>
                /\ \A c \in DOMAIN dir :
                      LET first == dir[c] + DirectoryBytes
                      IN  /\ first >= off + DirectoryBytes
                          /\ first < next
                          /\ PayloadEnd(indexFile, first) <= next
                          /\ ReadRecords(indexFile, first) # <<>>
                          /\ \E i \in 1..Len(entries) :
                                /\ entries[i].fileIndex = CellOfSlot(r, c)
                                /\ entries[i].edge = RecordAt(indexFile, first)
                /\ \E c \in DOMAIN dir :
                      PayloadEnd(indexFile, dir[c] + DirectoryBytes) = next

\* C4's case: two super-buckets were written, one of them with two child slots
C4_Witness ==
    /\ phase = "built"
    /\ Cardinality(DOMAIN ramFile) >= 2
    /\ \E r \in DOMAIN ramFile :
          /\ ramFile[r] > 0
          /\ Cardinality(DOMAIN ReadDirectory(indexFile, ramFile[r])) >= 2

\* the call sequences that are permutations of cs
PermutationsOf(cs) ==
    {[i \in 1..Len(cs) |-> cs[f[i]]] : f \in Permutations(1..Len(cs))}

MaxPermuted == 3    \* AddEdge calls that are permuted

\* two edges of one file cell, and one of another RAM cell
OrderEdges == {e \in Edges : e.start \in {1, 3, 7}}

InitOrder ==
    /\ calls \in CallSeqsOver(OrderEdges, MaxPermuted) \ {<<>>}
    /\ entries = EntriesOf(calls)
    /\ phase = "build"
    /\ ramIndexTable = EmptyTable
    /\ indexFile = EmptyFile
    /\ ramFile = EmptyTable
    /\ rd = [h \in Readers |-> ReaderIdle]
    /\ pos = [h \in Readers |-> 0]
    /\ call = NoCall
    /\ ret = None

\* AddEdge for every call of p in turn, then ConstructGrid
BuildPermuted(p) ==
    /\ phase = "build"
    /\ \E sorted \in SortByRamIndex(EntriesOf(p)) :
         \E out \in ConstructLoop(sorted, 0, EmptyTable, EmptyFile) :
            /\ entries' = sorted
            /\ ramIndexTable' = out.ramIndexTable
            /\ indexFile' = out.indexFile
            /\ ramFile' = out.ramIndexTable
    /\ phase' = "built"
    /\ call' = [op |-> "ConstructGrid"]
    /\ ret' = None
    /\ UNCHANGED <<calls, rd, pos>>

NextOrder == \E p \in PermutationsOf(calls) : BuildPermuted(p)

SpecOrder == InitOrder /\ [][NextOrder]_vars

\* C5 (as claimed): the RAM directory and the payload file ConstructGrid
\* writes for a permutation of the AddEdge calls are those it writes for the
\* calls in their first order.
C5_OrderIndependent_AsClaimed ==
    phase = "built" =>
        \A out \in ConstructGridOutcomes(EntriesOf(calls)) :
            /\ out.ramIndexTable = ramFile
            /\ out.indexFile = indexFile

\* the child slots written in the super-bucket of RAM cell r
SlotsOf(t, f, r) ==
    IF r \in DOMAIN t THEN DOMAIN ReadDirectory(f, t[r]) ELSE {}

\* C5 (amended): for a permutation of the AddEdge calls ConstructGrid sets
\* the same RAM directory entries and the same child slots as for the calls
\* in their first order, and stores the same set of distinct edge records for
\* every file cell; the offsets, the order of the records of a file cell and
\* the number of copies of a record need not agree.
C5_OrderIndependent ==
    phase = "built" =>
        \A out \in ConstructGridOutcomes(EntriesOf(calls)) :
            /\ DOMAIN out.ramIndexTable = DOMAIN ramFile
            /\ \A r \in DOMAIN ramFile :
                  SlotsOf(out.ramIndexTable, out.indexFile, r)
                      = SlotsOf(ramFile, indexFile, r)
            /\ \A fc \in EntryCells :
                  SeqToSet(RecordsOfCell(out.ramIndexTable, out.indexFile, fc))
                      = SeqToSet(RecordsOfCell(ramFile, indexFile, fc))

\* C5's case: two different edges of one file cell were added, with a third call
C5_Witness ==
    /\ phase = "built"
    /\ Len(calls) >= 3
    /\ \E i, j \in 1..Len(entries) :
          /\ entries[i].fileIndex = entries[j].fileIndex
          /\ entries[i].edge # entries[j].edge

-----------------------------------------------------------------------------
(* The distance kernel on its own *)

KernelSources == {Coord(0, 0), Coord(10, 10)}
KernelTargets == {Coord(1000, 1000), Coord(0, 0), Coord(1000, 0), Coord(10, 20)}
KernelQueries ==
    {Coord(0, 0), Coord(500, 500), Coord(2000, 2000), Coord(300, 700),
     Coord(-5, -5), Coord(1000, 1000), Coord(5, 15)}

InitKernel ==
    /\ calls = <<>>
    /\ entries = <<>>
    /\ phase = "pure"
    /\ ramIndexTable = EmptyTable
    /\ indexFile = EmptyFile
    /\ ramFile = EmptyTable
    /\ rd = [h \in Readers |-> ReaderIdle]
    /\ pos = [h \in Readers |-> 0]
    /\ call \in {[op |-> "none", inputPoint |-> p, source |-> a, target |-> b] :
                    p \in KernelQueries, a \in KernelSources, b \in KernelTargets}
    /\ ret = None

\* ComputeDistance(inputPoint, source, target, nearest, &r) with r = 0. on entry
CallComputeDistance ==
    /\ phase = "pure"
    /\ call.op = "none"
    /\ call' = [call EXCEPT !.op = "ComputeDistance"]
    /\ ret' = [nearest |-> ComputeDistance_nearest(call.inputPoint, call.source,
                                                    call.target, RZero),
               r |-> ComputeDistance_r(call.inputPoint, call.source,
                                       call.target, RZero)]
    /\ UNCHANGED <<calls, entries, phase, ramIndexTable, indexFile, ramFile, rd, pos>>

NextKernel == CallComputeDistance

SpecKernel == InitKernel /\ [][NextKernel]_vars

\* C6 (as claimed): the r the kernel reports is in [0,1]; where the projection
\* parameter (v.w)/(v.v) is <= 0 it is 0 and the foot is the edge's start,
\* where the parameter is >= 1 it is 1 and the foot is the edge's target.
C6_RatioClamped ==
    call.op = "ComputeDistance" =>
        LET v == KernelV(call.source, call.target)
            w == KernelW(call.inputPoint, call.source)
            vw == v.X * w.X + v.Y * w.Y
            vv == v.X * v.X + v.Y * v.Y
        IN  /\ 0 <= ret.r.n /\ ret.r.n <= ret.r.d
            /\ (vv # 0 /\ vw <= 0) =>
                    (ret.r.n = 0 /\ ret.nearest = call.source)
            /\ (vv # 0 /\ vw >= vv) =>
                    (ret.r.n = ret.r.d /\ ret.nearest = call.target)

-----------------------------------------------------------------------------
(* The grid functions on their own *)

GridPoints ==
    {Coord(545, 1095), Coord(0, 0), Coord(-9000000, -18000000),
     Coord(9000000, 18000000), Coord(9000000, 0), Coord(-8999500, 17998000),
     Coord(8999000, -17999000)}

GridDeltas ==
    {<<0, 0>>, <<600, 0>>, <<0, -1100>>, <<3000, 1100>>, <<-600, 5000>>,
     <<-3000, -4000>>, <<1200, 1200>>, <<600, -3000>>, <<-1000, 2000>>,
     <<500, 500>>}

InitGrid ==
    /\ calls = <<>>
    /\ entries = <<>>
    /\ phase = "pure"
    /\ ramIndexTable = EmptyTable
    /\ indexFile = EmptyFile
    /\ ramFile = EmptyTable
    /\ rd = [h \in Readers |-> ReaderIdle]
    /\ pos = [h \in Readers |-> 0]
    /\ \E a \in GridPoints, d \in GridDeltas :
          /\ InWorld(Coord(a.lat + d[1], a.lon + d[2]))
          /\ call = [op |-> "none", start |-> a,
                     target |-> Coord(a.lat + d[1], a.lon + d[2])]
    /\ ret = None

\* getFileIndexForLatLon(lat, lon) and getRAMIndexFromFileIndex of its value;
\* ramIndex is the value of a build without assertions, asserted tells
\* whether assert(ramIndex < 1024*1024) holds
CallGetFileIndexForLatLon ==
    /\ phase = "pure"
    /\ call.op = "none"
    /\ call' = [call EXCEPT !.op = "getFileIndexForLatLon"]
    /\ LET fileIndex == getFileIndexForLatLon(call.start.lat, call.start.lon)
       IN  ret' = [fileIndex |-> fileIndex,
                   ramIndex |-> getRAMIndexFromFileIndex(fileIndex),
                   asserted |-> RAMIndexAssertion(fileIndex)]
    /\ UNCHANGED <<calls, entries, phase, ramIndexTable, indexFile, ramFile, rd, pos>>

\* getListOfIndexesForEdgeAndGridSize(start, target, indexList): a failed
\* assertion ends the program unless the build has none (ndebug)
CallGetListOfIndexes ==
    /\ phase = "pure"
    /\ call.op = "none"
    /\ call' = [call EXCEPT !.op = "getListOfIndexesForEdgeAndGridSize"]
    /\ \E ndebug \in BOOLEAN :
          ret' = IF ndebug \/ AddEdgeAsserts(call.start, call.target)
                     THEN [returned |-> TRUE,
                           indexList |-> getListOfIndexesForEdgeAndGridSize(
                                             call.start, call.target)]
                     ELSE [returned |-> FALSE, indexList |-> <<>>]
    /\ UNCHANGED <<calls, entries, phase, ramIndexTable, indexFile, ramFile, rd, pos>>

NextGrid ==
    \/ CallGetFileIndexForLatLon
    \/ CallGetListOfIndexes

SpecGrid == InitGrid /\ [][NextGrid]_vars

\* C7 (as claimed): for lat in [-9000000, 9000000] and lon in
\* [-18000000, 18000000], ends included, getFileIndexForLatLon(lat, lon) is
\* below 32768*32768 and its getRAMIndexFromFileIndex is below 1048576.
C7_GridBounds ==
    call.op = "getFileIndexForLatLon" =>
        /\ ret.fileIndex >= 0 /\ ret.fileIndex < LineScale
        /\ ret.ramIndex >= 0 /\ ret.ramIndex < RamIndexLimit

MaxOf(a, b) == IF a > b THEN a ELSE b

\* C8: the list the rasterizer returns for an edge (a, b) has
\* 1 + max(|dx|, |dy|) cells, dx and dy the differences of the endpoints'
\* grid positions; its first cell is the file cell of a less 32768 and its
\* last cell the file cell of b less 32768.
C8_RasterizationCoverage ==
    (call.op = "getListOfIndexesForEdgeAndGridSize" /\ ret.returned) =>
        LET l == ret.indexList
            dx == Abs(GridX(call.target) - GridX(call.start))
            dy == Abs(GridY(call.target) - GridY(call.start))
        IN  /\ Len(l) = 1 + MaxOf(dx, dy)
            /\ l[1][1] = UAdd(getFileIndexForLatLon(call.start.lat, call.start.lon),
                              -GridSize)
            /\ l[Len(l)][1] = UAdd(getFileIndexForLatLon(call.target.lat,
                                                         call.target.lon),
                                   -GridSize)

\* C8's case: an edge steeper than 45 degrees that crosses rows and columns
C8_Witness ==
    /\ call.op = "getListOfIndexesForEdgeAndGridSize"
    /\ ret.returned
    /\ Abs(GridY(call.target) - GridY(call.start))
          > Abs(GridX(call.target) - GridX(call.start))
    /\ GridX(call.target) # GridX(call.start)
    /\ Len(ret.indexList) >= 3

-----------------------------------------------------------------------------
(* Two readers of one index, each with its own NNGrid object: the statements
   of FindNearestPointOnEdge and GetContentsOfFileBucket one stream operation
   at a time *)

MaxQueries == 1     \* queries each of the two readers runs

EdgeOf(id) == CHOOSE e \in Edges : e.start = id

\* the AddEdge calls behind the indexes the two readers open
ConcCalls == {<<EdgeOf(5), EdgeOf(7)>>, <<EdgeOf(1), EdgeOf(3)>>}

InitConc ==
    /\ calls \in ConcCalls
    /\ entries = <<>>
    /\ phase = "built"
    /\ ramIndexTable = EmptyTable
    /\ \E out \in ConstructGridOutcomes(EntriesOf(calls)) :
          /\ indexFile = out.indexFile
          /\ ramFile = out.ramIndexTable
    /\ rd = [h \in Readers |->
                [ReaderIdle EXCEPT !.opened = TRUE, !.ramIndexTable = ramFile]]
    /\ pos = [h \in Readers |-> 0]
    /\ call = NoCall
    /\ ret = None

\* FindNearestPointOnEdge(inputCoordinate) is entered
StartQuery(h, q) ==
    /\ rd[h].pc \in {"idle", "done"}
    /\ rd[h].queries < MaxQueries
    /\ rd' = [rd EXCEPT ![h].pc = "lookup", ![h].coord = q,
                 ![h].queries = @ + 1,
                 ![h].cells = Neighbourhood(getFileIndexForLatLon(q.lat, q.lon)),
                 ![h].k = 1, ![h].candidates = <<>>]
    /\ UNCHANGED <<calls, entries, phase, ramIndexTable, indexFile, ramFile, pos,
                   call, ret>>

\* GetContentsOfFileBucket is entered for the k-th cell: the RAM directory is
\* looked up and the stream is moved to the super-bucket
LookupAndSeek(h) ==
    /\ rd[h].pc = "lookup"
    /\ rd[h].k <= Len(rd[h].cells)
    /\ LET ramIndex == getRAMIndexFromFileIndex(rd[h].cells[rd[h].k])
           startIndexInFile == TableGet(rd[h].ramIndexTable, ramIndex)
       IN  IF startIndexInFile = UINT_MAX
               THEN /\ rd' = [rd EXCEPT ![h].k = @ + 1]
                    /\ pos' = pos
               ELSE /\ rd' = [rd EXCEPT ![h].pc = "directory"]
                    /\ pos' = [pos EXCEPT ![Handle(h)] = startIndexInFile]
    /\ UNCHANGED <<calls, entries, phase, ramIndexTable, indexFile, ramFile,
                   call, ret>>

\* the 1024 reads into cellIndex
ReadCellIndex(h) ==
    /\ rd[h].pc = "directory"
    /\ rd' = [rd EXCEPT ![h].pc = "seek",
                 ![h].cellIndex = ReadDirectory(indexFile, pos[Handle(h)])]
    /\ pos' = [pos EXCEPT ![Handle(h)] = @ + DirectoryBytes]
    /\ UNCHANGED <<calls, entries, phase, ramIndexTable, indexFile, ramFile,
                   call, ret>>

\* the child slot of the cell is looked up and the stream is moved to its
\* records
SeekRecords(h) ==
    /\ rd[h].pc = "seek"
    /\ LET fileIndex == rd[h].cells[rd[h].k]
           entry == TableGet(rd[h].cellIndex,
                        CellMapFind(getRAMIndexFromFileIndex(fileIndex), fileIndex))
       IN  IF entry = UINT_MAX
               THEN /\ rd' = [rd EXCEPT ![h].pc = "lookup", ![h].k = @ + 1]
                    /\ pos' = pos
               ELSE /\ rd' = [rd EXCEPT ![h].pc = "payload"]
                    /\ pos' = [pos EXCEPT ![Handle(h)] = UAdd(entry, DirectoryBytes)]
    /\ UNCHANGED <<calls, entries, phase, ramIndexTable, indexFile, ramFile,
                   call, ret>>

\* one turn of the do-loop
ReadRecord(h) ==
    /\ rd[h].pc = "payload"
    /\ LET p == pos[Handle(h)]
       IN  IF Word(indexFile, p) = UINT_MAX \/ AtEOF(indexFile, p)
               THEN /\ rd' = [rd EXCEPT ![h].pc = "lookup", ![h].k = @ + 1]
                    /\ pos' = [pos EXCEPT ![Handle(h)] = p + WordBytes]
               ELSE /\ rd' = [rd EXCEPT ![h].candidates =
                                            Append(@, RecordAt(indexFile, p))]
                    /\ pos' = [pos EXCEPT ![Handle(h)] = p + RecordBytes]
    /\ UNCHANGED <<calls, entries, phase, ramIndexTable, indexFile, ramFile,
                   call, ret>>

\* the scan of the candidates and the return
ReturnNearest(h) ==
    /\ rd[h].pc = "lookup"
    /\ rd[h].k > Len(rd[h].cells)
    /\ rd' = [rd EXCEPT ![h].pc = "done",
                 ![h].nearest = NearestOf(rd[h].coord, rd[h].candidates).nearest]
    /\ UNCHANGED <<calls, entries, phase, ramIndexTable, indexFile, ramFile, pos,
                   call, ret>>

NextConc ==
    \E h \in Readers :
        \/ \E q \in Queries : StartQuery(h, q)
        \/ LookupAndSeek(h)
        \/ ReadCellIndex(h)
        \/ SeekRecords(h)
        \/ ReadRecord(h)
        \/ ReturnNearest(h)

SpecConc == InitConc /\ [][NextConc]_vars

\* C10: whatever the interleaving of the steps of the two readers' queries,
\* a reader's RAM directory stays as loaded, a query that has returned has
\* returned what it returns when it runs alone, and the handle of a reader
\* that has run no query is where it was opened: a query moves its own
\* handle only.
C10_QueriesIndependent ==
    \A h \in Readers :
        /\ rd[h].ramIndexTable = ramFile
        /\ rd[h].pc = "done" =>
              rd[h].nearest = FindNearestPointOnEdge(ramFile, indexFile, rd[h].coord)
        /\ rd[h].queries = 0 => pos[h] = 0

\* C10's case: a query has returned an edge's point after its reader and the
\* other one were both in the middle of a super-bucket
C10_Witness ==
    /\ rd[1].pc = "done"
    /\ rd[1].nearest # Sentinel
    /\ rd[2].pc = "payload"
    /\ rd[2].k < rd[1].k
    /\ rd[2].coord # rd[1].coord

-----------------------------------------------------------------------------
(* The layout the builder writes against the layout the reader decodes *)

\* a file cell of the 32768 x 32768 grid
LegalCell(fc) == fc >= 0 /\ fc < LineScale

\* the file cells that hold an entry and the cells next to them
ProbedCells ==
    {fc \in UNION {{c, c - 1, c + 1, c - GridSize, c + GridSize} : c \in EntryCells} :
        LegalCell(fc)}

\* the entries of RAM cell r, in the order ConstructGrid hands them to FillCell
EntriesOfRamCell(r) ==
    LET InCell(en) == en.ramIndex = r
    IN  SelectSeq(entries, InCell)

\* the edges of the entries of u that belong to file cell fc, in u's order
EdgesOfCell(u, fc) ==
    LET InCell(en) == en.fileIndex = fc
        kept == SelectSeq(u, InCell)
    IN  [i \in 1..Len(kept) |-> kept[i].edge]

\* C11: for every legal file cell fc, GetContentsOfFileBucket(fc) returns the
\* records the builder stored for fc, in the order FillCell's sort and unique
\* left them, and nothing of another file cell or super-bucket; it returns
\* nothing when the RAM cell or the child slot of fc is empty.  Every record
\* under child slot c of super-bucket R belongs to an entry of file cell
\* base(R) + (c/32)*32768 + (c%32), whose RAM cell is R.
C11_LayoutAgreement ==
    phase = "built" =>
        /\ \A r \in {getRAMIndexFromFileIndex(fc) : fc \in ProbedCells} :
              \E sorted \in SortByFileIndex(EntriesOfRamCell(r)) :
                 \A fc \in ProbedCells :
                    getRAMIndexFromFileIndex(fc) = r =>
                        GetContentsOfFileBucket(ramFile, indexFile, fc)
                            = EdgesOfCell(Unique(sorted), fc)
        /\ \A r \in DOMAIN ramFile :
              LET dir == ReadDirectory(indexFile, ramFile[r])
              IN  \A c \in DOMAIN dir :
                    /\ getRAMIndexFromFileIndex(CellOfSlot(r, c)) = r
                    /\ \A rec \in SeqToSet(ReadRecords(indexFile,
                                                dir[c] + DirectoryBytes)) :
                          \E i \in 1..Len(entries) :
                             /\ entries[i].fileIndex = CellOfSlot(r, c)
                             /\ entries[i].edge = rec

\* C11's case: a super-bucket with two child slots, a file cell with two
\* records and a probed cell with none
C11_Witness ==
    /\ phase = "built"
    /\ \E r \in DOMAIN ramFile :
          Cardinality(DOMAIN ReadDirectory(indexFile, ramFile[r])) >= 2
    /\ \E fc \in ProbedCells :
          Len(GetContentsOfFileBucket(ramFile, indexFile, fc)) >= 2
    /\ \E fc \in ProbedCells :
          /\ getRAMIndexFromFileIndex(fc) \in DOMAIN ramFile
          /\ GetContentsOfFileBucket(ramFile, indexFile, fc) = <<>>

\* C12 (as claimed): for coordinates in the valid range every file cell the
\* rasterizer emits and every one of the nine indices a query hands to
\* GetContentsOfFileBucket is in [0, 32768*32768), and the assertion
\* ramIndex < 1024*1024 of getRAMIndexFromFileIndex holds for it.
C12_AssertionsAtBorders ==
    /\ call.op = "getListOfIndexesForEdgeAndGridSize" =>
          /\ ret.returned
          /\ \A i \in 1..Len(ret.indexList) :
                /\ LegalCell(ret.indexList[i][1])
                /\ ret.indexList[i][2] >= 0
                /\ ret.indexList[i][2] < RamIndexLimit
    /\ call.op = "getFileIndexForLatLon" =>
          LET cells == Neighbourhood(ret.fileIndex)
          IN  \A k \in 1..Len(cells) :
                /\ LegalCell(cells[k])
                /\ RAMIndexAssertion(cells[k])

====
